---- MODULE Spec2Model ----
(***************************************************************************)
(* A model of jsobjectutils: the deep equality / clone / merge engine of   *)
(* ObjectUtils and the positional codec of ObjectCompressor.               *)
(*                                                                         *)
(* JavaScript values are tagged records.  A container (date, array, plain  *)
(* object) carries the field `own`, which names the allocation it belongs  *)
(* to: "source" or "default" for the containers of the two arguments of a  *)
(* call, "new" for a container created by the call (`{}`, `[]`,            *)
(* `new Date(..)`).  The code's own comparisons never read `own`.          *)
(***************************************************************************)
EXTENDS Integers, Sequences, FiniteSets, TLC

VARIABLES op, pc, sourceArg, defaultArg, funcsArg, sourceNow, defaultNow, result

vars == <<op, pc, sourceArg, defaultArg, funcsArg, sourceNow, defaultNow, result>>

(***************************************************************************)
(* The value domain.                                                       *)
(***************************************************************************)
Undefined == [k |-> "undefined"]

NullV == [k |-> "null"]

Func == [k |-> "function"]

Num(n) == [k |-> "number", v |-> n]

Str(s) == [k |-> "string", v |-> s]

Bool(b) == [k |-> "boolean", v |-> b]

DateV(t, o) == [k |-> "date", t |-> t, own |-> o]

Arr(e, o) == [k |-> "array", e |-> e, own |-> o]

Obj(f, o) == [k |-> "object", f |-> f, own |-> o]

\* An error raised by the runtime (a TypeError) in place of a result.
TypeError == [k |-> "TypeError"]

NoFields == [key \in {} |-> Undefined]

IsArray(v) == v.k = "array"

IsDate(v) == v.k = "date"

IsContainer(v) == v.k \in {"date", "array", "object"}

\* typeof v
TypeOf(v) ==
    IF v.k \in {"null", "date", "array", "object"} THEN "object" ELSE v.k

\* Object.keys(v) for a value with typeof v === 'object' that is not null.
OwnKeys(v) ==
    IF v.k = "object" THEN DOMAIN v.f
    ELSE IF v.k = "array" THEN {ToString(i - 1) : i \in 1..Len(v.e)}
    ELSE {}

\* v[key] for a value that is neither null nor undefined.
GetProp(v, key) ==
    IF v.k = "object" THEN (IF key \in DOMAIN v.f THEN v.f[key] ELSE Undefined)
    ELSE IF v.k = "array" THEN
        (IF key \in OwnKeys(v)
            THEN v.e[CHOOSE i \in 1..Len(v.e) : ToString(i - 1) = key]
            ELSE Undefined)
    ELSE Undefined

(***************************************************************************)
(* Deep equality: ObjectUtils.dateEquals / arrayEquals / objectEquals /    *)
(* equals.  `===` on two values of which one is a primitive is equality of *)
(* the tagged records.                                                     *)
(***************************************************************************)
dateEquals(leftDate, rightDate) ==
    IF leftDate = Undefined /\ rightDate = Undefined THEN TRUE
    ELSE IF leftDate = Undefined \/ rightDate = Undefined THEN FALSE
    ELSE IF leftDate = NullV /\ rightDate = NullV THEN TRUE
    ELSE IF leftDate = NullV \/ rightDate = NullV THEN FALSE
    ELSE IF IsDate(leftDate) /\ IsDate(rightDate) THEN leftDate.t = rightDate.t
    ELSE FALSE

RECURSIVE objectEquals(_, _), arrayEquals(_, _)

\* The body of objectEquals' loop for one key: TRUE for `continue`.
\* (The test `leftKey === undefined` of line 104 is never true of a key.)
objectEqualsAtKey(leftObject, rightObject, leftKey) ==
    /\ leftKey \in OwnKeys(rightObject)
    /\ LET leftValue == GetProp(leftObject, leftKey)
           rightValue == GetProp(rightObject, leftKey)
       IN IF IsArray(leftValue)
              THEN IsArray(rightValue) /\ arrayEquals(leftValue, rightValue)
          ELSE IF leftValue = NullV THEN rightValue = NullV
          ELSE IF IsDate(leftValue)
              THEN IsDate(rightValue) /\ dateEquals(leftValue, rightValue)
          ELSE IF TypeOf(leftValue) = "object"
              THEN TypeOf(rightValue) = "object"
                   /\ objectEquals(leftValue, rightValue)
          ELSE leftValue = rightValue

objectEquals(leftObject, rightObject) ==
    IF leftObject = Undefined /\ rightObject = Undefined THEN TRUE
    ELSE IF leftObject = Undefined \/ rightObject = Undefined THEN FALSE
    ELSE IF leftObject = NullV /\ rightObject = NullV THEN TRUE
    ELSE IF leftObject = NullV \/ rightObject = NullV THEN FALSE
    ELSE IF IsDate(leftObject)
        THEN (IF IsDate(rightObject) THEN dateEquals(leftObject, rightObject)
              ELSE FALSE)
    ELSE IF TypeOf(leftObject) = "object"
        THEN (IF TypeOf(rightObject) = "object"
              THEN LET leftKeys == OwnKeys(leftObject)
                       rightKeys == OwnKeys(rightObject)
                   IN IF Cardinality(leftKeys) # Cardinality(rightKeys) THEN FALSE
                      ELSE IF Cardinality(leftKeys) = 0 THEN TRUE
                      ELSE \A leftKey \in leftKeys :
                              objectEqualsAtKey(leftObject, rightObject, leftKey)
              ELSE FALSE)
    ELSE leftObject = rightObject

\* The body of arrayEquals' loop for one index: TRUE for `continue`.
arrayEqualsAtIndex(leftValue, rightValue) ==
    IF leftValue = Undefined THEN rightValue = Undefined
    ELSE IF IsArray(leftValue)
        THEN IsArray(rightValue) /\ arrayEquals(leftValue, rightValue)
    ELSE IF leftValue = NullV THEN rightValue = NullV
    ELSE IF IsDate(leftValue)
        THEN IsDate(rightValue) /\ dateEquals(leftValue, rightValue)
    ELSE IF TypeOf(leftValue) = "object"
        THEN TypeOf(rightValue) = "object" /\ objectEquals(leftValue, rightValue)
    ELSE leftValue = rightValue

arrayEquals(leftArray, rightArray) ==
    IF leftArray = Undefined /\ rightArray = Undefined THEN TRUE
    ELSE IF leftArray = Undefined \/ rightArray = Undefined THEN FALSE
    ELSE IF leftArray = NullV /\ rightArray = NullV THEN TRUE
    ELSE IF leftArray = NullV \/ rightArray = NullV THEN FALSE
    ELSE IF ~IsArray(leftArray) \/ ~IsArray(rightArray) THEN FALSE
    ELSE IF Len(leftArray.e) # Len(rightArray.e) THEN FALSE
    ELSE IF Len(leftArray.e) = 0 THEN TRUE
    ELSE \A idx \in 1..Len(leftArray.e) :
            arrayEqualsAtIndex(leftArray.e[idx], rightArray.e[idx])

equals(left, right) ==
    IF left = Undefined /\ right = Undefined THEN TRUE
    ELSE IF left = Undefined \/ right = Undefined THEN FALSE
    ELSE IF left = NullV /\ right = NullV THEN TRUE
    ELSE IF left = NullV \/ right = NullV THEN FALSE
    ELSE IF IsDate(left)
        THEN (IF IsDate(right) THEN dateEquals(left, right) ELSE FALSE)
    ELSE IF IsArray(left)
        THEN (IF IsArray(right) THEN arrayEquals(left, right) ELSE FALSE)
    ELSE IF TypeOf(left) = "object"
        THEN (IF TypeOf(right) = "object" THEN objectEquals(left, right)
              ELSE FALSE)
    ELSE left = right

(***************************************************************************)
(* Deep clone and merge.  keyValueModifyFuncs is Undefined or              *)
(* [k |-> "funcs", m |-> a map from name path to the name of a modify      *)
(* function]; a name path parameter is Undefined or Str(path).             *)
(***************************************************************************)
NoFuncs == Undefined

Funcs(m) == [k |-> "funcs", m |-> m]

\* The caller's modify functions, by name, applied to the old value.
ApplyFunc(name, oldValue) ==
    IF name = "const" THEN Str("gz")
    ELSE IF name = "typeof" THEN Str(TypeOf(oldValue))
    ELSE oldValue

HasFunc(keyValueModifyFuncs, keyNamePath) ==
    /\ keyValueModifyFuncs # Undefined
    /\ keyNamePath \in DOMAIN keyValueModifyFuncs.m

\* dateClone handing back the source's own Date instance.
dateClone_SameInstance(sourceDate) == sourceDate

dateClone(sourceDate) == DateV(sourceDate.t, "new")

\* parentPath + '.' + name, or name alone when parentPath is undefined.
JoinPath(parentPath, name) ==
    IF parentPath = Undefined THEN name ELSE parentPath.v \o "." \o name

RECURSIVE PrivObjectMerge(_, _, _, _), PrivArrayClone(_, _, _), PrivClone(_, _, _)

PrivObjectClone(sourceObject, keyValueModifyFuncs, objectNamePath) ==
    PrivObjectMerge(sourceObject, Obj(NoFields, "new"), keyValueModifyFuncs,
                    objectNamePath)

\* _objectMerge's first loop: the target value written for a key of the source.
MergeFromSource(sourceObject, defaultObject, keyValueModifyFuncs, objectNamePath, sourceObjectKey) ==
    LET sourceValue == GetProp(sourceObject, sourceObjectKey)
        keyNamePath == JoinPath(objectNamePath, sourceObjectKey)
        defaultValue == GetProp(defaultObject, sourceObjectKey)
    IN IF HasFunc(keyValueModifyFuncs, keyNamePath)
           THEN ApplyFunc(keyValueModifyFuncs.m[keyNamePath], sourceValue)
       ELSE IF sourceValue = Undefined THEN Undefined
       ELSE IF IsArray(sourceValue)
           THEN PrivArrayClone(sourceValue, keyValueModifyFuncs, Str(keyNamePath))
       ELSE IF sourceValue = NullV THEN NullV
       ELSE IF IsDate(sourceValue) THEN dateClone(sourceValue)
       ELSE IF TypeOf(sourceValue) = "object"
           THEN (IF /\ sourceObjectKey \in OwnKeys(defaultObject)
                    /\ defaultValue # Undefined
                    /\ ~IsArray(defaultValue)
                    /\ defaultValue # NullV
                    /\ ~IsDate(defaultValue)
                    /\ TypeOf(defaultValue) = "object"
                 THEN PrivObjectMerge(sourceValue, defaultValue,
                                      keyValueModifyFuncs, Str(keyNamePath))
                 ELSE PrivObjectClone(sourceValue, keyValueModifyFuncs,
                                      Str(keyNamePath)))
       ELSE IF TypeOf(sourceValue) = "function" THEN Undefined
       ELSE sourceValue

\* _objectMerge's second loop: whether a key of the default object is skipped.
MergeSkipsDefault(sourceObject, defaultObjectKey) ==
    /\ defaultObjectKey \in OwnKeys(sourceObject)
    /\ GetProp(sourceObject, defaultObjectKey) # Undefined

\* _objectMerge's second loop: the target value written for a default key.
MergeFromDefault(defaultObject, keyValueModifyFuncs, objectNamePath, defaultObjectKey) ==
    LET defaultValue == GetProp(defaultObject, defaultObjectKey)
        keyNamePath == JoinPath(objectNamePath, defaultObjectKey)
    IN IF defaultValue = Undefined THEN Undefined
       ELSE IF IsArray(defaultValue)
           THEN PrivArrayClone(defaultValue, keyValueModifyFuncs, Str(keyNamePath))
       ELSE IF defaultValue = NullV THEN NullV
       ELSE IF IsDate(defaultValue) THEN dateClone(defaultValue)
       ELSE IF TypeOf(defaultValue) = "object"
           THEN PrivObjectClone(defaultValue, keyValueModifyFuncs, Str(keyNamePath))
       ELSE IF TypeOf(defaultValue) = "function" THEN Undefined
       ELSE defaultValue

\* _objectMerge without its second loop.
PrivObjectMerge_SourceKeysOnly(sourceObject, defaultObject, keyValueModifyFuncs, objectNamePath) ==
    Obj([key \in OwnKeys(sourceObject) |->
            MergeFromSource(sourceObject, defaultObject, keyValueModifyFuncs,
                            objectNamePath, key)],
        "new")

\* _objectMerge: the target starts as {}; the first loop writes every source key,
\* the second loop then writes every default key it does not skip.
PrivObjectMerge(sourceObject, defaultObject, keyValueModifyFuncs, objectNamePath) ==
    LET sourceObjectKeys == OwnKeys(sourceObject)
        defaultObjectKeys == OwnKeys(defaultObject)
    IN Obj([key \in sourceObjectKeys \cup defaultObjectKeys |->
              IF key \in defaultObjectKeys /\ ~MergeSkipsDefault(sourceObject, key)
              THEN MergeFromDefault(defaultObject, keyValueModifyFuncs,
                                    objectNamePath, key)
              ELSE MergeFromSource(sourceObject, defaultObject, keyValueModifyFuncs,
                                   objectNamePath, key)],
           "new")

\* _arrayClone handing back the source array itself instead of a copy.
PrivArrayClone_NoCopy(sourceArray, keyValueModifyFuncs, arrayNamePath) ==
    sourceArray

PrivArrayClone(sourceArray, keyValueModifyFuncs, arrayNamePath) ==
    LET elementNamePath == JoinPath(arrayNamePath, "[]")
    IN Arr([i \in 1..Len(sourceArray.e) |->
              PrivClone(sourceArray.e[i], keyValueModifyFuncs, Str(elementNamePath))],
           "new")

\* _clone leaving the target unassigned for a null source.
PrivClone_NullDropped(source, keyValueModifyFuncs, namePath) ==
    IF source = Undefined THEN Undefined
    ELSE IF source = NullV THEN Undefined
    ELSE IF IsDate(source) THEN dateClone(source)
    ELSE IF TypeOf(source) = "object"
        THEN PrivObjectClone(source, keyValueModifyFuncs, namePath)
    ELSE IF TypeOf(source) = "function" THEN Undefined
    ELSE source

\* _clone: the array test is written `Array.isArray()`, that is
\* Array.isArray(undefined), whatever the source is.
PrivClone(source, keyValueModifyFuncs, namePath) ==
    IF source = Undefined THEN Undefined
    ELSE IF IsArray(Undefined)
        THEN PrivArrayClone(source, keyValueModifyFuncs, namePath)
    ELSE IF source = NullV THEN NullV
    ELSE IF IsDate(source) THEN dateClone(source)
    ELSE IF TypeOf(source) = "object"
        THEN PrivObjectClone(source, keyValueModifyFuncs, namePath)
    ELSE IF TypeOf(source) = "function" THEN Undefined
    ELSE source

objectMerge(sourceObject, defaultObject, keyValueModifyFuncs) ==
    PrivObjectMerge(sourceObject, defaultObject, keyValueModifyFuncs, Undefined)

objectClone(sourceObject, keyValueModifyFuncs) ==
    PrivObjectClone(sourceObject, keyValueModifyFuncs, Undefined)

arrayClone(sourceArray, keyValueModifyFuncs) ==
    PrivArrayClone(sourceArray, keyValueModifyFuncs, Undefined)

clone(source, keyValueModifyFuncs) ==
    PrivClone(source, keyValueModifyFuncs, Undefined)

(***************************************************************************)
(* ObjectUtils.arrayCombine.                                               *)
(***************************************************************************)
\* targetArray.push(value)
Push(targetArray, value) == Arr(Append(targetArray.e, value), targetArray.own)

\* The search loops of _arrayCombine over the first sourceArrayLength elements.
FoundDate(targetArray, sourceArrayLength, defaultValue) ==
    \E idx \in 1..sourceArrayLength :
        IsDate(targetArray.e[idx]) /\ dateEquals(targetArray.e[idx], defaultValue)

FoundScalar(targetArray, sourceArrayLength, defaultValue) ==
    \E idx \in 1..sourceArrayLength : targetArray.e[idx] = defaultValue

\* One iteration of _arrayCombine's loop over the default array.
CombineStep(targetArray, sourceArrayLength, defaultValue, keyValueModifyFuncs, elementNamePath) ==
    IF defaultValue = Undefined THEN Push(targetArray, Undefined)
    ELSE IF IsArray(defaultValue)
        THEN Push(targetArray, PrivArrayClone(defaultValue, keyValueModifyFuncs,
                                              Str(elementNamePath)))
    ELSE IF defaultValue = NullV THEN Push(targetArray, NullV)
    ELSE IF IsDate(defaultValue)
        THEN (IF FoundDate(targetArray, sourceArrayLength, defaultValue)
              THEN targetArray
              ELSE Push(targetArray, dateClone(defaultValue)))
    ELSE IF TypeOf(defaultValue) = "object"
        THEN Push(targetArray, PrivObjectClone(defaultValue, keyValueModifyFuncs,
                                               Str(elementNamePath)))
    ELSE IF TypeOf(defaultValue) \in {"string", "number", "boolean", "bigint"}
        THEN (IF FoundScalar(targetArray, sourceArrayLength, defaultValue)
              THEN targetArray
              ELSE Push(targetArray, defaultValue))
    ELSE IF TypeOf(defaultValue) = "function" THEN Push(targetArray, Undefined)
    ELSE Push(targetArray, defaultValue)

RECURSIVE CombineLoop(_, _, _, _, _, _)

\* The loop `for (let defaultValue of defaultArray)` from element i on.
CombineLoop(targetArray, sourceArrayLength, defaultArray, i, keyValueModifyFuncs, elementNamePath) ==
    IF i > Len(defaultArray.e) THEN targetArray
    ELSE CombineLoop(CombineStep(targetArray, sourceArrayLength, defaultArray.e[i],
                                 keyValueModifyFuncs, elementNamePath),
                     sourceArrayLength, defaultArray, i + 1, keyValueModifyFuncs,
                     elementNamePath)

PrivArrayCombine(sourceArray, defaultArray, keyValueModifyFuncs, arrayNamePath) ==
    LET elementNamePath == JoinPath(arrayNamePath, "[]")
        targetArray == PrivArrayClone(sourceArray, keyValueModifyFuncs, arrayNamePath)
        sourceArrayLength == Len(sourceArray.e)
    IN CombineLoop(targetArray, sourceArrayLength, defaultArray, 1,
                   keyValueModifyFuncs, elementNamePath)

arrayCombine(sourceArray, defaultArray, keyValueModifyFuncs) ==
    PrivArrayCombine(sourceArray, defaultArray, keyValueModifyFuncs, Undefined)

(***************************************************************************)
(* The arguments of a call: every value of at most a given number of       *)
(* nodes (a leaf, an array or an object is one node) over two keys.        *)
(***************************************************************************)
MaxNodes == 4

MaxMergeNodes == 5

MaxFuncMergeNodes == 4

MaxCombineLen == 3

MaxEqualsNodes == 5

Keys == {"a", "b"}

Leaves(o) == {Undefined, NullV, Num(1), DateV(1, o)}

RECURSIVE ValuesOfSize(_, _), SeqsOfSize(_, _), FieldsOfSize(_, _, _)

\* The sequences of values of n nodes in all.
SeqsOfSize(n, o) ==
    IF n = 0 THEN {<<>>}
    ELSE UNION {{<<v>> \o s : v \in ValuesOfSize(j, o), s \in SeqsOfSize(n - j, o)} :
                j \in 1..n}

\* The maps from exactly the keys K to values of n nodes in all.
FieldsOfSize(K, n, o) ==
    IF K = {} THEN (IF n = 0 THEN {NoFields} ELSE {})
    ELSE LET key == CHOOSE x \in K : TRUE
         IN UNION {{(key :> v) @@ g : v \in ValuesOfSize(j, o),
                                      g \in FieldsOfSize(K \ {key}, n - j, o)} :
                   j \in 1..n}

ValuesOfSize(n, o) ==
    IF n = 1 THEN Leaves(o) \cup {Arr(<<>>, o), Obj(NoFields, o)}
    ELSE {Arr(s, o) : s \in SeqsOfSize(n - 1, o)}
         \cup UNION {{Obj(g, o) : g \in FieldsOfSize(K, n - 1, o)} :
                     K \in SUBSET Keys \ {{}}}

ValuesUpTo(n, o) == UNION {ValuesOfSize(j, o) : j \in 1..n}

ObjectsOfSize(n, o) == {v \in ValuesOfSize(n, o) : v.k = "object"}

ObjectsUpTo(n, o) == {v \in ValuesUpTo(n, o) : v.k = "object"}

ArraysUpTo(n, o) == {v \in ValuesUpTo(n, o) : v.k = "array"}

\* The maps one level deep whose values may be functions.
MapsWithFunctions(o) ==
    UNION {{Obj(g, o) : g \in [K -> Leaves(o) \cup {Func}]} : K \in SUBSET Keys}

\* The maps of modify functions: one name path, one function.
FuncPaths == {"a", "b", "a.a"}

FuncNames == {"const", "typeof", "same"}

FuncMaps == {Funcs(path :> name) : path \in FuncPaths, name \in FuncNames}

MaxArrayDepth == 2

\* The maps held by the arrays that are cloned with a modify function.
ElementMaps(o) == {Obj("a" :> Num(1), o), Obj(NoFields, o)}

RECURSIVE ArraysOfDepth(_, _)

\* The arrays of one or two elements nested depth levels deep around maps.
ArraysOfDepth(depth, o) ==
    LET elements == IF depth = 1 THEN ElementMaps(o) ELSE ArraysOfDepth(depth - 1, o)
    IN {Arr(<<x>>, o) : x \in elements} \cup {Arr(<<x, y>>, o) : x, y \in elements}

RECURSIVE Brackets(_)

Brackets(depth) == IF depth = 0 THEN <<>> ELSE <<"[]">> \o Brackets(depth - 1)

RECURSIVE JoinSegments(_)

JoinSegments(segments) ==
    IF Len(segments) = 1 THEN segments[1]
    ELSE segments[1] \o "." \o JoinSegments(Tail(segments))

\* The segments of the name path of the field a of the maps depth arrays deep,
\* in a top-level array and in the array under the key a.
ElementFieldPaths(depth) ==
    {Brackets(depth) \o <<"a">>, <<"a">> \o Brackets(depth) \o <<"a">>}

\* The elements of the arrays given to arrayCombine.
CombineElems(o) ==
    {Undefined, NullV, Num(1), Num(2), Str("s"), DateV(1, o), DateV(2, o),
     Arr(<<>>, o), Obj(NoFields, o)}

RECURSIVE SeqsOfLen(_, _)

SeqsOfLen(S, n) ==
    IF n = 0 THEN {<<>>} ELSE {<<x>> \o s : x \in S, s \in SeqsOfLen(S, n - 1)}

(***************************************************************************)
(* The state machine: a call of one operation with its arguments, then the *)
(* operation itself.  sourceNow and defaultNow are the contents of the two *)
(* argument objects; a write through a reference that belongs to an        *)
(* argument changes that argument.                                         *)
(***************************************************************************)
Call(o, s, d, f) ==
    /\ op = o
    /\ pc = "call"
    /\ sourceArg = s
    /\ defaultArg = d
    /\ funcsArg = f
    /\ sourceNow = s
    /\ defaultNow = d
    /\ result = Undefined

\* The argument after the call wrote into `target`.
AfterWrites(arg, target) ==
    IF IsContainer(arg) /\ IsContainer(target) /\ target.own = arg.own
    THEN target ELSE arg

Return(value) ==
    /\ pc = "call"
    /\ pc' = "done"
    /\ result' = value
    /\ sourceNow' = AfterWrites(sourceNow, value)
    /\ defaultNow' = AfterWrites(defaultNow, value)
    /\ UNCHANGED <<op, sourceArg, defaultArg, funcsArg>>

InitUtils ==
    \/ \E x \in ValuesUpTo(MaxNodes, "source") : Call("clone", x, Undefined, NoFuncs)
    \/ \E x \in ObjectsUpTo(MaxNodes, "source") :
          Call("objectClone", x, Undefined, NoFuncs)
    \/ \E x \in ArraysUpTo(MaxNodes, "source") :
          Call("arrayClone", x, Undefined, NoFuncs)
    \/ \E n \in 1..(MaxMergeNodes - 1) :
          \E s \in ObjectsOfSize(n, "source") :
             \E d \in ObjectsUpTo(MaxMergeNodes - n, "default") :
                Call("objectMerge", s, d, NoFuncs)
    \/ \E n \in 1..(MaxFuncMergeNodes - 1) :
          \E s \in ObjectsOfSize(n, "source") :
             \E d \in ObjectsUpTo(MaxFuncMergeNodes - n, "default") :
                \E f \in FuncMaps : Call("objectMerge", s, d, f)
    \/ \E s \in MapsWithFunctions("source"), d \in MapsWithFunctions("default") :
          Call("objectMerge", s, d, NoFuncs)
    \/ \E depth \in 1..MaxArrayDepth, pathDepth \in 1..MaxArrayDepth, name \in FuncNames :
          \E x \in ArraysOfDepth(depth, "source"), segments \in ElementFieldPaths(pathDepth) :
             \/ Call("arrayClone", x, Undefined, Funcs(JoinSegments(segments) :> name))
             \/ Call("objectClone", Obj("a" :> x, "source"), Undefined,
                     Funcs(JoinSegments(segments) :> name))
    \/ \E n \in 0..MaxCombineLen :
          \E s \in SeqsOfLen(CombineElems("source"), n) :
             \E m \in 0..(MaxCombineLen - n) :
                \E d \in SeqsOfLen(CombineElems("default"), m) :
                   Call("arrayCombine", Arr(s, "source"), Arr(d, "default"), NoFuncs)

Clone == op = "clone" /\ Return(clone(sourceArg, funcsArg))

ObjectClone == op = "objectClone" /\ Return(objectClone(sourceArg, funcsArg))

ArrayClone == op = "arrayClone" /\ Return(arrayClone(sourceArg, funcsArg))

ObjectMerge ==
    op = "objectMerge" /\ Return(objectMerge(sourceArg, defaultArg, funcsArg))

ArrayCombine ==
    op = "arrayCombine" /\ Return(arrayCombine(sourceArg, defaultArg, funcsArg))

NextUtils == Clone \/ ObjectClone \/ ArrayClone \/ ObjectMerge \/ ArrayCombine

Spec == InitUtils /\ [][NextUtils]_vars

InitEquals ==
    \E n \in 1..(MaxEqualsNodes - 1) :
       \E l \in ValuesOfSize(n, "source") :
          \E r \in ValuesUpTo(MaxEqualsNodes - n, "default") :
             Call("equals", l, r, NoFuncs)

Equals == op = "equals" /\ Return(Bool(equals(sourceArg, defaultArg)))

NextEquals == Equals

SpecEquals == InitEquals /\ [][NextEquals]_vars

(***************************************************************************)
(* What the claims speak of: the data of a value (its contents without the *)
(* allocation tags), and the allocations a value is made of.               *)
(***************************************************************************)
RECURSIVE Plain(_), Owners(_)

Plain(v) ==
    IF v.k = "date" THEN [k |-> "date", t |-> v.t]
    ELSE IF v.k = "array"
        THEN [k |-> "array", e |-> [i \in 1..Len(v.e) |-> Plain(v.e[i])]]
    ELSE IF v.k = "object"
        THEN [k |-> "object", f |-> [key \in DOMAIN v.f |-> Plain(v.f[key])]]
    ELSE v

Owners(v) ==
    IF v.k = "date" THEN {v.own}
    ELSE IF v.k = "array"
        THEN {v.own} \cup UNION {Owners(v.e[i]) : i \in 1..Len(v.e)}
    ELSE IF v.k = "object"
        THEN {v.own} \cup UNION {Owners(v.f[key]) : key \in DOMAIN v.f}
    ELSE {}

SameData(a, b) == Plain(a) = Plain(b)

IsPlainMap(v) == v.k = "object"

Done(o) == op = o /\ pc = "done"

C2_SourceWinsFallbackFills ==
    (Done("objectMerge") /\ funcsArg = NoFuncs) =>
        /\ \A key \in OwnKeys(sourceArg) :
              LET sourceValue == GetProp(sourceArg, key)
              IN (sourceValue # Undefined /\ ~IsPlainMap(sourceValue))
                    => SameData(GetProp(result, key), sourceValue)
        /\ \A key \in OwnKeys(defaultArg) :
              (key \notin OwnKeys(sourceArg) \/ GetProp(sourceArg, key) = Undefined)
                 => SameData(GetProp(result, key), GetProp(defaultArg, key))

\* C3 (as claimed): where the source holds a plain map at a key, the result there
\* is the recursive merge with the fallback's map when the fallback holds a plain
\* map too, and otherwise a deep clone of the source's map alone.
C3_NestedMapsMergeOrClone ==
    (Done("objectMerge") /\ funcsArg = NoFuncs) =>
        \A key \in OwnKeys(sourceArg) :
           LET sourceValue == GetProp(sourceArg, key)
               defaultValue == GetProp(defaultArg, key)
           IN IsPlainMap(sourceValue) =>
                 IF IsPlainMap(defaultValue)
                 THEN SameData(GetProp(result, key),
                               objectMerge(sourceValue, defaultValue, NoFuncs))
                 ELSE /\ SameData(GetProp(result, key), sourceValue)
                      /\ Owners(GetProp(result, key)) = {"new"}

\* The value at a name path of one or two segments ("a", "a.a").
AtPath(v, path) ==
    IF path \in Keys THEN GetProp(v, path)
    ELSE LET parent == GetProp(v, "a")
         IN IF IsPlainMap(parent) THEN GetProp(parent, "a") ELSE Undefined

\* Whether a name path of one or two segments names a key of the source.
PathInSource(v, path) ==
    IF path \in Keys THEN path \in OwnKeys(v)
    ELSE /\ "a" \in OwnKeys(v)
         /\ IsPlainMap(GetProp(v, "a"))
         /\ "a" \in OwnKeys(GetProp(v, "a"))

\* C4 (as claimed): for every key of the source whose full name path has an entry
\* in the overrides, the result at the key is overrides[path](source value),
\* for every source value (undefined included) and whatever the fallback holds.
C4_OverrideDecidesValue ==
    (Done("objectMerge") /\ funcsArg # NoFuncs) =>
        \A path \in DOMAIN funcsArg.m :
           PathInSource(sourceArg, path)
              => AtPath(result, path)
                    = ApplyFunc(funcsArg.m[path], AtPath(sourceArg, path))

ContainerKinds == {"date", "array", "object"}

KindMismatch(a, b) == a.k \in ContainerKinds /\ b.k \in ContainerKinds /\ a.k # b.k

\* C5 (as claimed): equals(a, b) is false whenever a and b are of different kinds
\* among date, array and plain object, empty containers included, at the top
\* level and at the positions objectEquals and arrayEquals reach.
C5_KindMismatchIsUnequal ==
    Done("equals") =>
        /\ KindMismatch(sourceArg, defaultArg) => result = Bool(FALSE)
        /\ (sourceArg.k = "object" /\ defaultArg.k = "object"
              /\ \E key \in OwnKeys(sourceArg) \cap OwnKeys(defaultArg) :
                    KindMismatch(GetProp(sourceArg, key), GetProp(defaultArg, key)))
              => result = Bool(FALSE)
        /\ (sourceArg.k = "array" /\ defaultArg.k = "array"
              /\ \E i \in 1..Len(sourceArg.e) :
                    i <= Len(defaultArg.e)
                    /\ KindMismatch(sourceArg.e[i], defaultArg.e[i]))
              => result = Bool(FALSE)

\* C6 (as claimed): the clone of an array x is the array of the clones of its
\* elements, the result of arrayClone(x), and the clone of any value has the
\* value's kind.
C6_CloneOfArrayIsArray ==
    Done("clone") =>
        /\ result.k = sourceArg.k
        /\ IsArray(sourceArg) => result = arrayClone(sourceArg, NoFuncs)

\* C7: without overrides the result of clone, objectClone, arrayClone and
\* objectMerge shares no container (array, plain object, date) with the source
\* or the fallback at any depth: every container of the result is new.
C7_ResultSharesNoContainer ==
    (pc = "done" /\ op \in {"clone", "objectClone", "arrayClone", "objectMerge"}
        /\ funcsArg = NoFuncs)
        => Owners(result) \subseteq {"new"}

C7_Witness ==
    /\ Done("objectMerge")
    /\ funcsArg = NoFuncs
    /\ \E key \in OwnKeys(sourceArg) : IsDate(GetProp(sourceArg, key))
    /\ \E key \in OwnKeys(defaultArg) \ OwnKeys(sourceArg) :
          IsArray(GetProp(defaultArg, key))
    /\ Owners(result) = {"new"}

\* C8: objectMerge, objectClone, arrayClone, clone and arrayCombine leave their
\* source and fallback arguments unchanged.
C8_ArgumentsUnchanged ==
    pc = "done" => (sourceNow = sourceArg /\ defaultNow = defaultArg)

C8_Witness ==
    /\ Done("arrayCombine")
    /\ Len(sourceArg.e) > 0
    /\ Len(result.e) > Len(sourceArg.e)
    /\ sourceNow = sourceArg
    /\ defaultNow = defaultArg

RECURSIVE CombineAppended(_, _, _)

\* The elements of def, from element i on, that C9 says are appended to src.
CombineAppended(src, def, i) ==
    IF i > Len(def.e) THEN <<>>
    ELSE LET x == def.e[i]
             kept ==
                IF x.k \in {"undefined", "null", "array", "object"} THEN TRUE
                ELSE IF x.k = "date"
                    THEN ~\E j \in 1..Len(src.e) :
                             src.e[j].k = "date" /\ src.e[j].t = x.t
                ELSE ~\E j \in 1..Len(src.e) : src.e[j] = x
         IN (IF kept THEN <<x>> ELSE <<>>) \o CombineAppended(src, def, i + 1)

\* C9 (as claimed): arrayCombine(src, def) is a clone of src followed, in def's
\* order, by def's undefined, null, array and plain-object elements and by those
\* of its dates and scalars that no element of src equals.
C9_CombineIsCloneThenNewElements ==
    Done("arrayCombine") =>
        SameData(result,
                 Arr(sourceArg.e \o CombineAppended(sourceArg, defaultArg, 1), "new"))

(***************************************************************************)
(* ObjectCompressor: compress / compressArray / decompress /               *)
(* decompressArray.  A template is an array value whose entries are        *)
(* strings or descriptor objects {name, type, keys}.  A property read on   *)
(* null or undefined, and `for .. of` over a value that is not iterable,   *)
(* raise a TypeError, which ends the whole call.                           *)
(***************************************************************************)
IsNullish(v) == v = NullV \/ v = Undefined

\* The values `for (.. of v)` accepts, and what it yields.
Iterable(v) == v.k \in {"array", "string"}

Items(v) ==
    IF v.k = "array" THEN v.e
    ELSE [i \in 1..Len(v.v) |-> Str(SubSeq(v.v, i, i))]

RECURSIVE ToPropertyKey(_), JoinKeys(_, _)

\* Array.prototype.join(',') from element i on.
JoinKeys(e, i) ==
    IF i > Len(e) THEN ""
    ELSE (IF IsNullish(e[i]) THEN "" ELSE ToPropertyKey(e[i]))
         \o (IF i < Len(e) THEN "," ELSE "") \o JoinKeys(e, i + 1)

\* The property name a value stands for in obj[value].
ToPropertyKey(v) ==
    IF v.k = "string" THEN v.v
    ELSE IF v.k = "number" THEN ToString(v.v)
    ELSE IF v.k = "boolean" THEN (IF v.v THEN "true" ELSE "false")
    ELSE IF v.k = "object" THEN "[object Object]"
    ELSE IF v.k = "array" THEN JoinKeys(v.e, 1)
    ELSE IF v.k = "date" THEN "Date " \o ToString(v.t)
    ELSE v.k

\* obj[name] = value
SetField(fields, name, value) == (name :> value) @@ fields

RECURSIVE compress(_, _), compressArray(_, _), CompressLoop(_, _, _, _),
          CompressArrayLoop(_, _, _, _)

\* compress's loop over the template from entry i on; data is the target array.
CompressLoop(obj, keys, i, data) ==
    IF i > Len(keys) THEN Arr(data, "new")
    ELSE LET key == keys[i]
         IN IF TypeOf(key) = "string"
                THEN (IF IsNullish(obj) THEN TypeError
                      ELSE CompressLoop(obj, keys, i + 1,
                                        Append(data, GetProp(obj, key.v))))
            ELSE IF TypeOf(key) = "object"
                THEN (IF key = NullV \/ IsNullish(obj) THEN TypeError
                      ELSE LET value ==
                                  GetProp(obj, ToPropertyKey(GetProp(key, "name")))
                               childKeys == GetProp(key, "keys")
                               packed ==
                                  IF GetProp(key, "type") = Str("array")
                                  THEN compressArray(value, childKeys)
                                  ELSE compress(value, childKeys)
                           IN IF value = Undefined
                                  THEN CompressLoop(obj, keys, i + 1,
                                                    Append(data, Undefined))
                              ELSE IF packed = TypeError THEN TypeError
                              ELSE CompressLoop(obj, keys, i + 1,
                                                Append(data, packed)))
            ELSE CompressLoop(obj, keys, i + 1, data)

\* compress starting its loop at the second template entry.
compress_SkipsFirstEntry(obj, template) ==
    IF ~Iterable(template) THEN TypeError
    ELSE CompressLoop(obj, Items(template), 2, <<>>)

compress(obj, template) ==
    IF ~Iterable(template) THEN TypeError
    ELSE CompressLoop(obj, Items(template), 1, <<>>)

CompressArrayLoop(items, template, i, datas) ==
    IF i > Len(items) THEN Arr(datas, "new")
    ELSE LET packed == compress(items[i], template)
         IN IF packed = TypeError THEN TypeError
            ELSE CompressArrayLoop(items, template, i + 1, Append(datas, packed))

compressArray(objs, template) ==
    IF ~Iterable(objs) THEN TypeError
    ELSE CompressArrayLoop(Items(objs), template, 1, <<>>)

\* data.length, for a value that has one.
HasLength(v) == v.k \in {"array", "string"}

Length(v) == IF v.k = "array" THEN Len(v.e) ELSE Len(v.v)

\* data[idx], idx counted from 0.
Index(data, idx) ==
    IF HasLength(data)
    THEN (IF idx < Length(data) THEN Items(data)[idx + 1] ELSE Undefined)
    ELSE GetProp(data, ToString(idx))

\* decompress storing null at a bare key without turning it into undefined.
DecodeBare_KeepNull(value) == value

\* decompress: the value stored for a bare key.
DecodeBare(value) == IF value = NullV THEN Undefined ELSE value

RECURSIVE decompress(_, _), decompressArray(_, _), DecompressLoop(_, _, _, _),
          DecompressArrayLoop(_, _, _, _)

\* decompress's loop over the template from entry i (index i - 1) on.
DecompressLoop(data, keys, i, fields) ==
    IF i > Len(keys) THEN Obj(fields, "new")
    ELSE LET key == keys[i]
             idx == i - 1
             value == Index(data, idx)
             childKeys == GetProp(key, "keys")
             child ==
                IF GetProp(key, "type") = Str("array")
                THEN decompressArray(value, childKeys)
                ELSE decompress(value, childKeys)
         IN IF IsNullish(data) THEN TypeError
            ELSE IF HasLength(data) /\ idx >= Length(data)
                THEN DecompressLoop(data, keys, i + 1,
                                    SetField(fields, ToPropertyKey(key), Undefined))
            ELSE IF TypeOf(key) = "string"
                THEN DecompressLoop(data, keys, i + 1,
                                    SetField(fields, key.v, DecodeBare(value)))
            ELSE IF TypeOf(key) = "object"
                THEN (IF key = NullV THEN TypeError
                      ELSE IF IsNullish(value)
                          THEN DecompressLoop(data, keys, i + 1,
                                   SetField(fields,
                                            ToPropertyKey(GetProp(key, "name")),
                                            Undefined))
                      ELSE IF child = TypeError THEN TypeError
                      ELSE DecompressLoop(data, keys, i + 1,
                               SetField(fields,
                                        ToPropertyKey(GetProp(key, "name")),
                                        child)))
            ELSE DecompressLoop(data, keys, i + 1, fields)

\* template.length of null or undefined raises; a value with no length gives an
\* empty loop.
decompress(data, template) ==
    IF IsNullish(template) THEN TypeError
    ELSE IF ~HasLength(template) THEN Obj(NoFields, "new")
    ELSE DecompressLoop(data, Items(template), 1, NoFields)

DecompressArrayLoop(items, template, i, objs) ==
    IF i > Len(items) THEN Arr(objs, "new")
    ELSE LET unpacked == decompress(items[i], template)
         IN IF unpacked = TypeError THEN TypeError
            ELSE DecompressArrayLoop(items, template, i + 1, Append(objs, unpacked))

decompressArray(datas, template) ==
    IF ~Iterable(datas) THEN TypeError
    ELSE DecompressArrayLoop(Items(datas), template, 1, <<>>)

(***************************************************************************)
(* The codec's arguments: an object of at most MaxCodecNodes nodes and a   *)
(* template of at most MaxTemplateNodes nodes (a bare key is one node, a   *)
(* descriptor one node more than its child template).                      *)
(***************************************************************************)
MaxCodecNodes == 3

MaxTemplateNodes == 2

RECURSIVE TemplateSeqsOfSize(_), EntriesOfSize(_)

Descriptor(name, type, keys) ==
    IF type = "" THEN Obj([name |-> Str(name), keys |-> Arr(keys, "default")],
                          "default")
    ELSE Obj([name |-> Str(name), type |-> Str(type), keys |-> Arr(keys, "default")],
             "default")

EntriesOfSize(n) ==
    (IF n = 1 THEN {Str(key) : key \in Keys} ELSE {})
    \cup {Descriptor(name, type, keys) :
             name \in Keys, type \in {"", "array"}, keys \in TemplateSeqsOfSize(n - 1)}

TemplateSeqsOfSize(n) ==
    IF n = 0 THEN {<<>>}
    ELSE UNION {{<<x>> \o s : x \in EntriesOfSize(j), s \in TemplateSeqsOfSize(n - j)} :
                j \in 1..n}

TemplatesUpTo(n) == {Arr(s, "default") : s \in UNION {TemplateSeqsOfSize(j) : j \in 0..n}}

InitCodec ==
    \/ \E obj \in ObjectsUpTo(MaxCodecNodes, "source"),
          template \in TemplatesUpTo(MaxTemplateNodes) :
             Call("roundTrip", obj, template, NoFuncs)
    \/ \E data \in ArraysUpTo(MaxCodecNodes, "source"),
          template \in TemplatesUpTo(MaxTemplateNodes) :
             Call("decompress", data, template, NoFuncs)

\* data = compress(obj, template)
Compress ==
    /\ op = "roundTrip"
    /\ pc = "call"
    /\ pc' = "compressed"
    /\ result' = compress(sourceArg, defaultArg)
    /\ UNCHANGED <<op, sourceArg, defaultArg, funcsArg, sourceNow, defaultNow>>

\* decompress(data, template), unless compress raised
Decompress ==
    /\ op = "roundTrip"
    /\ pc = "compressed"
    /\ result # TypeError
    /\ pc' = "done"
    /\ result' = decompress(result, defaultArg)
    /\ UNCHANGED <<op, sourceArg, defaultArg, funcsArg, sourceNow, defaultNow>>

\* decompress(data, template) on a data array that compress need not have made
DecompressData ==
    /\ op = "decompress"
    /\ pc = "call"
    /\ pc' = "done"
    /\ result' = decompress(sourceArg, defaultArg)
    /\ UNCHANGED <<op, sourceArg, defaultArg, funcsArg, sourceNow, defaultNow>>

NextCodec == Compress \/ Decompress \/ DecompressData

SpecCodec == InitCodec /\ [][NextCodec]_vars

(***************************************************************************)
(* Round trip through the codec.                                           *)
(***************************************************************************)
EntryName(entry) == IF entry.k = "string" THEN entry.v ELSE entry.f.name.v

IsArrayDescriptor(entry) ==
    entry.k = "object" /\ GetProp(entry, "type") = Str("array")

\* The last template entry that names `name`.
LastEntry(keys, name) ==
    keys[CHOOSE i \in 1..Len(keys) :
            /\ EntryName(keys[i]) = name
            /\ \A j \in (i + 1)..Len(keys) : EntryName(keys[j]) # name]

RECURSIVE Restricted(_, _, _), Conforms(_, _)

\* obj restricted to the keys the template names, keys absent from obj present
\* as undefined and a key named twice read by its last entry;
\* readsNullAsUndefined says whether null at a bare key comes
\* back as undefined.
Restricted(obj, keys, readsNullAsUndefined) ==
    Obj([name \in {EntryName(keys[i]) : i \in 1..Len(keys)} |->
            LET entry == LastEntry(keys, name)
                value == GetProp(obj, name)
            IN IF entry.k = "string"
                   THEN (IF readsNullAsUndefined /\ value = NullV
                         THEN Undefined ELSE value)
               ELSE IF value.k = "object" /\ ~IsArrayDescriptor(entry)
                   THEN Restricted(value, entry.f.keys.e, readsNullAsUndefined)
               ELSE IF value.k = "array" /\ IsArrayDescriptor(entry)
                   THEN Arr([j \in 1..Len(value.e) |->
                               IF value.e[j].k = "object"
                               THEN Restricted(value.e[j], entry.f.keys.e,
                                               readsNullAsUndefined)
                               ELSE value.e[j]], "new")
               ELSE value],
        "new")

\* Every field a descriptor names is absent or undefined, a map for an object
\* descriptor, or an array of maps for an array descriptor, recursively.
Conforms(obj, keys) ==
    \A i \in 1..Len(keys) :
       keys[i].k = "object" =>
          LET value == GetProp(obj, EntryName(keys[i]))
              childKeys == keys[i].f.keys.e
          IN \/ value = Undefined
             \/ /\ ~IsArrayDescriptor(keys[i])
                /\ value.k = "object"
                /\ Conforms(value, childKeys)
             \/ /\ IsArrayDescriptor(keys[i])
                /\ value.k = "array"
                /\ \A j \in 1..Len(value.e) :
                      value.e[j].k = "object" /\ Conforms(value.e[j], childKeys)

RoundTripFits ==
    /\ op = "roundTrip"
    /\ Conforms(sourceArg, defaultArg.e)

\* C10 (as stated): for every map obj and every template t,
\* decompress(compress(obj, t), t) is obj restricted to the keys t names, keys
\* absent from obj present as undefined.
C10_RoundTripIsRestriction ==
    Done("roundTrip") => SameData(result, Restricted(sourceArg, defaultArg.e, FALSE))

\* C10 (amended): when every field a descriptor names is absent or undefined, a map (object descriptor) or an array of maps
\* (array descriptor), compress does not raise and the round trip gives obj
\* restricted to the keys t names, with absent keys, and bare keys whose value
\* is null, present as undefined.
C10_RoundTripIsRestrictionNullAsUndefined ==
    RoundTripFits =>
       /\ pc = "compressed" => result # TypeError
       /\ pc = "done" => SameData(result, Restricted(sourceArg, defaultArg.e, TRUE))

\* A round trip through a descriptor with child keys over a nested map or a
\* non-empty array of maps.
C10_Witness ==
    /\ pc = "done"
    /\ RoundTripFits
    /\ \E i \in 1..Len(defaultArg.e) :
          LET entry == defaultArg.e[i]
          IN /\ entry.k = "object"
             /\ Len(entry.f.keys.e) > 0
             /\ LET value == GetProp(sourceArg, EntryName(entry))
                IN \/ value.k = "object"
                   \/ value.k = "array" /\ Len(value.e) > 0
    /\ \E name \in DOMAIN result.f : result.f[name] # Undefined

(***************************************************************************)
(* decompress with a data array shorter than the template.                 *)
(***************************************************************************)
Truncated(template, n) == Arr(SubSeq(template.e, 1, n), template.own)

\* The names of the template entries at an index >= n.
NamesFrom(template, n) ==
    {EntryName(template.e[i]) : i \in (n + 1)..Len(template.e)}

\* C11: when the data array is shorter than the template, every entry at an
\* index >= data.length gives a key named by the entry (the key string or the
\* descriptor's name) with value undefined, and the entries before decode as
\* they do with the template truncated to data.length.
C11_ShortDataFillsUndefined ==
    (Done("decompress") /\ Len(sourceArg.e) < Len(defaultArg.e)) =>
       LET n == Len(sourceArg.e)
           head == decompress(sourceArg, Truncated(defaultArg, n))
           added == NamesFrom(defaultArg, n)
       IN IF head = TypeError THEN result = TypeError
          ELSE /\ result # TypeError
               /\ result.f = [name \in DOMAIN head.f \cup added |->
                                IF name \in added THEN Undefined ELSE head.f[name]]

(***************************************************************************)
(* The array compress returns.                                             *)
(***************************************************************************)
\* What C12 puts at the position of one template entry.
CompressedEntry(obj, entry) ==
    LET value == GetProp(obj, EntryName(entry))
    IN IF entry.k = "string" THEN value
       ELSE IF value = Undefined THEN Undefined
       ELSE IF IsArrayDescriptor(entry) THEN compressArray(value, entry.f.keys)
       ELSE compress(value, entry.f.keys)

\* C12: compress returns one position per template entry, in template order:
\* obj[key] for a bare key, undefined for a descriptor whose field is
\* undefined, compressArray(value, keys) for an array descriptor and
\* compress(value, keys) for any other descriptor; it raises exactly when one
\* of these nested calls raises.
C12_CompressIsPositional ==
    (op = "roundTrip" /\ pc = "compressed") =>
       LET entries == defaultArg.e
           parts == [i \in 1..Len(entries) |-> CompressedEntry(sourceArg, entries[i])]
       IN IF \E i \in 1..Len(entries) : parts[i] = TypeError
          THEN result = TypeError
          ELSE SameData(result, Arr(parts, "new"))

\* compress has returned an array holding a value read at a bare key, an
\* undefined for a descriptor, and a nested array for a descriptor.
C12_Witness ==
    /\ op = "roundTrip"
    /\ pc = "compressed"
    /\ result # TypeError
    /\ \E i \in 1..Len(defaultArg.e) :
          /\ defaultArg.e[i].k = "object"
          /\ result.e[i].k = "array"
          /\ Len(result.e[i].e) > 0

\* C13: compress and decompress complete without raising, for every map or
\* data array and every template.
C13_CodecNeverRaises ==
    op \in {"roundTrip", "decompress"} => result # TypeError

(***************************************************************************)
(* The name parsers: ObjectAccessor.splitNamePath,                         *)
(* ObjectComposer.splitProperityNameSequence and                           *)
(* ObjectSorter.parseOrderExpression.  A text is a string read one         *)
(* character at a time; idx counts from 1; a buffer of characters is kept  *)
(* as the string its join('') gives.                                       *)
(***************************************************************************)
CharAt(text, idx) == SubSeq(text, idx, idx)

\* Inside single quotes: whether the ' at idx is followed by another '.
IsDoubledQuote_Never(text, idx) == FALSE

IsDoubledQuote(text, idx) == idx + 1 <= Len(text) /\ CharAt(text, idx + 1) = "'"

RECURSIVE Trim(_)

\* String.prototype.trim, for texts whose only white space is the space.
Trim(text) ==
    IF text = "" THEN ""
    ELSE IF CharAt(text, 1) = " " THEN Trim(SubSeq(text, 2, Len(text)))
    ELSE IF CharAt(text, Len(text)) = " " THEN Trim(SubSeq(text, 1, Len(text) - 1))
    ELSE text

\* c.toLowerCase(), for the letters the texts hold.
ToLowerCase(c) ==
    CASE c = "A" -> "a" [] c = "C" -> "c" [] c = "D" -> "d"
      [] c = "E" -> "e" [] c = "S" -> "s" [] OTHER -> c

RECURSIVE LowerCased(_)

LowerCased(text) ==
    IF text = "" THEN ""
    ELSE ToLowerCase(CharAt(text, 1)) \o LowerCased(SubSeq(text, 2, Len(text)))

\* The result array of names.
NamesArray(names) == Arr([i \in 1..Len(names) |-> Str(names[i])], "new")

RECURSIVE SplitNamePathFrom(_, _, _, _, _)

\* splitNamePath's loop from character idx on.
SplitNamePathFrom(namePath, idx, state, nameBuffer, names) ==
    IF idx > Len(namePath)
    THEN (IF state = "expect-name-end" /\ nameBuffer # ""
          THEN Append(names, nameBuffer) ELSE names)
    ELSE LET c == CharAt(namePath, idx)
         IN CASE state = "expect-name-start" ->
                   IF c = "\""
                       THEN SplitNamePathFrom(namePath, idx + 1,
                                "expect-double-quote-end", "", names)
                   ELSE IF c = "'"
                       THEN SplitNamePathFrom(namePath, idx + 1,
                                "expect-single-quote-end", "", names)
                   ELSE SplitNamePathFrom(namePath, idx + 1, "expect-name-end", c, names)
              [] state = "expect-double-quote-end" ->
                   IF c = "\""
                       THEN SplitNamePathFrom(namePath, idx + 1, "expect-dot",
                                nameBuffer, Append(names, nameBuffer))
                   ELSE SplitNamePathFrom(namePath, idx + 1, state,
                                          nameBuffer \o c, names)
              [] state = "expect-single-quote-end" ->
                   IF c = "'"
                       THEN (IF IsDoubledQuote(namePath, idx)
                             THEN SplitNamePathFrom(namePath, idx + 2, state,
                                                    nameBuffer \o "'", names)
                             ELSE SplitNamePathFrom(namePath, idx + 1, "expect-dot",
                                      nameBuffer, Append(names, nameBuffer)))
                   ELSE SplitNamePathFrom(namePath, idx + 1, state,
                                          nameBuffer \o c, names)
              [] state = "expect-name-end" ->
                   IF c = "."
                       THEN SplitNamePathFrom(namePath, idx + 1, "expect-name-start",
                                nameBuffer, Append(names, nameBuffer))
                   ELSE SplitNamePathFrom(namePath, idx + 1, state,
                                          nameBuffer \o c, names)
              [] state = "expect-dot" ->
                   IF c = "."
                       THEN SplitNamePathFrom(namePath, idx + 1, "expect-name-start",
                                              nameBuffer, names)
                   ELSE names

\* splitNamePath leaving out the names that are empty.
splitNamePath_NoEmptyName(namePath) ==
    LET NotEmpty(name) == name # ""
    IN NamesArray(SelectSeq(SplitNamePathFrom(namePath.v, 1, "expect-name-start", "", <<>>),
                            NotEmpty))

splitNamePath(namePath) ==
    NamesArray(SplitNamePathFrom(namePath.v, 1, "expect-name-start", "", <<>>))

RECURSIVE SplitSequenceFrom(_, _, _, _, _)

\* splitProperityNameSequence's loop from character idx on.
SplitSequenceFrom(nameString, idx, state, nameBuffer, names) ==
    IF idx > Len(nameString)
    THEN (IF state = "expect-name-end" /\ nameBuffer # ""
          THEN Append(names, Trim(nameBuffer)) ELSE names)
    ELSE LET c == CharAt(nameString, idx)
         IN CASE state = "expect-name-start" ->
                   IF c = " "
                       THEN SplitSequenceFrom(nameString, idx + 1, state,
                                              nameBuffer, names)
                   ELSE IF c = "\""
                       THEN SplitSequenceFrom(nameString, idx + 1,
                                "expect-double-quote-end", "", names)
                   ELSE IF c = "'"
                       THEN SplitSequenceFrom(nameString, idx + 1,
                                "expect-single-quote-end", "", names)
                   ELSE SplitSequenceFrom(nameString, idx + 1, "expect-name-end",
                                          c, names)
              [] state = "expect-double-quote-end" ->
                   IF c = "\""
                       THEN SplitSequenceFrom(nameString, idx + 1, "expect-comma",
                                nameBuffer, Append(names, nameBuffer))
                   ELSE SplitSequenceFrom(nameString, idx + 1, state,
                                          nameBuffer \o c, names)
              [] state = "expect-single-quote-end" ->
                   IF c = "'"
                       THEN (IF IsDoubledQuote(nameString, idx)
                             THEN SplitSequenceFrom(nameString, idx + 2, state,
                                                    nameBuffer \o "'", names)
                             ELSE SplitSequenceFrom(nameString, idx + 1, "expect-comma",
                                      nameBuffer, Append(names, nameBuffer)))
                   ELSE SplitSequenceFrom(nameString, idx + 1, state,
                                          nameBuffer \o c, names)
              [] state = "expect-name-end" ->
                   IF c = ","
                       THEN SplitSequenceFrom(nameString, idx + 1, "expect-name-start",
                                nameBuffer, Append(names, Trim(nameBuffer)))
                   ELSE SplitSequenceFrom(nameString, idx + 1, state,
                                          nameBuffer \o c, names)
              [] state = "expect-comma" ->
                   IF c = ","
                       THEN SplitSequenceFrom(nameString, idx + 1, "expect-name-start",
                                              nameBuffer, names)
                   ELSE IF c = " "
                       THEN SplitSequenceFrom(nameString, idx + 1, state,
                                              nameBuffer, names)
                   ELSE names

splitProperityNameSequence(nameString) ==
    NamesArray(SplitSequenceFrom(nameString.v, 1, "expect-name-start", "", <<>>))

\* new OrderField(fieldName, isAscendingOrder)
OrderField(fieldName, isAscendingOrder) ==
    Obj([fieldName |-> Str(fieldName), isAscendingOrder |-> Bool(isAscendingOrder)],
        "new")

\* appendNameAscendingPair
AppendNameAscendingPair(nameAscendingPairs, nameBuffer, ascendingBuffer) ==
    Append(nameAscendingPairs,
           [name |-> Trim(nameBuffer), ascending |-> Trim(ascendingBuffer)])

RECURSIVE ParseOrderFrom(_, _, _, _, _, _)

\* parseOrderExpression's loop from character idx on: the name/ascending pairs
\* at the end of the text, or at the syntax error that ends the loop.
ParseOrderFrom(orderExpression, idx, state, nameBuffer, ascendingBuffer, pairs) ==
    IF idx > Len(orderExpression)
    THEN [syntaxError |-> FALSE,
          pairs |-> IF state # "expect-name-start" /\ nameBuffer # ""
                    THEN AppendNameAscendingPair(pairs, nameBuffer, ascendingBuffer)
                    ELSE pairs]
    ELSE LET c == CharAt(orderExpression, idx)
             next == idx + 1
         IN CASE state = "expect-name-start" ->
                   IF c = " "
                       THEN ParseOrderFrom(orderExpression, next, state,
                                nameBuffer, ascendingBuffer, pairs)
                   ELSE IF c = "\""
                       THEN ParseOrderFrom(orderExpression, next,
                                "expect-double-quote-end", "", "", pairs)
                   ELSE IF c = "'"
                       THEN ParseOrderFrom(orderExpression, next,
                                "expect-single-quote-end", "", "", pairs)
                   ELSE ParseOrderFrom(orderExpression, next, "expect-name-end",
                                       c, "", pairs)
              [] state = "expect-double-quote-end" ->
                   IF c = "\""
                       THEN ParseOrderFrom(orderExpression, next,
                                "expect-ascending-start", nameBuffer,
                                ascendingBuffer, pairs)
                   ELSE ParseOrderFrom(orderExpression, next, state,
                                       nameBuffer \o c, ascendingBuffer, pairs)
              [] state = "expect-single-quote-end" ->
                   IF c = "'"
                       THEN (IF IsDoubledQuote(orderExpression, idx)
                             THEN ParseOrderFrom(orderExpression, idx + 2, state,
                                      nameBuffer \o "'", ascendingBuffer, pairs)
                             ELSE ParseOrderFrom(orderExpression, next,
                                      "expect-ascending-start", nameBuffer,
                                      ascendingBuffer, pairs))
                   ELSE ParseOrderFrom(orderExpression, next, state,
                                       nameBuffer \o c, ascendingBuffer, pairs)
              [] state = "expect-name-end" ->
                   IF c = ","
                       THEN ParseOrderFrom(orderExpression, next, "expect-name-start",
                                nameBuffer, ascendingBuffer,
                                AppendNameAscendingPair(pairs, nameBuffer,
                                                        ascendingBuffer))
                   ELSE IF c = " "
                       THEN ParseOrderFrom(orderExpression, next,
                                "expect-ascending-start", nameBuffer,
                                ascendingBuffer, pairs)
                   ELSE ParseOrderFrom(orderExpression, next, state,
                                       nameBuffer \o c, ascendingBuffer, pairs)
              [] state = "expect-ascending-start" ->
                   IF c = " "
                       THEN ParseOrderFrom(orderExpression, next, state,
                                nameBuffer, ascendingBuffer, pairs)
                   ELSE IF c = ","
                       THEN ParseOrderFrom(orderExpression, next, "expect-name-start",
                                nameBuffer, ascendingBuffer,
                                AppendNameAscendingPair(pairs, nameBuffer,
                                                        ascendingBuffer))
                   ELSE ParseOrderFrom(orderExpression, next, "expect-ascending-end",
                                       nameBuffer, ascendingBuffer \o c, pairs)
              [] state = "expect-ascending-end" ->
                   IF c = ","
                       THEN ParseOrderFrom(orderExpression, next, "expect-name-start",
                                nameBuffer, ascendingBuffer,
                                AppendNameAscendingPair(pairs, nameBuffer,
                                                        ascendingBuffer))
                   ELSE IF ToLowerCase(c) \in {"d", "e", "s", "c"}
                       THEN ParseOrderFrom(orderExpression, next, state,
                                nameBuffer, ascendingBuffer \o c, pairs)
                   ELSE [syntaxError |-> TRUE, pairs |-> pairs]

\* The order fields with the word desc matched in lower case only.
OrderFieldsOf_LowerCaseOnly(pairs) ==
    Arr([i \in 1..Len(pairs) |-> OrderField(pairs[i].name, pairs[i].ascending # "desc")],
        "new")

\* The loop that turns the name/ascending pairs into order fields.
OrderFieldsOf(pairs) ==
    Arr([i \in 1..Len(pairs) |->
            OrderField(pairs[i].name, LowerCased(pairs[i].ascending) # "desc")],
        "new")

\* At a syntax error the loop returns orderFields, which is still empty.
parseOrderExpression(orderExpression) ==
    IF orderExpression.v = "" THEN Arr(<<>>, "new")
    ELSE LET parsed == ParseOrderFrom(orderExpression.v, 1, "expect-name-start",
                                      "", "", <<>>)
         IN IF parsed.syntaxError THEN Arr(<<>>, "new")
            ELSE OrderFieldsOf(parsed.pairs)

(***************************************************************************)
(* The texts handed to the parsers.  A text is written from a list of      *)
(* fields joined by the parser's separator; a field is a bare or quoted    *)
(* name, spaces before and after a bare name, and for an order expression  *)
(* a direction word after the name.  A text is written from at most        *)
(* MaxChars characters of names, spaces and direction words (a word        *)
(* counting one).                                                          *)
(***************************************************************************)
MaxChars == 3

BareChars == {"a"}

QuotedChars(quote) ==
    IF quote = "'" THEN {"'", "\"", ".", ",", " "} ELSE {"'", ".", ",", " "}

Words == {"desc", "dEsC", "ASC", "up"}

RECURSIVE StringsOfLen(_, _), Spaces(_), Escaped(_), FieldListsWritten(_, _),
          TextOf(_, _)

StringsOfLen(chars, n) ==
    IF n = 0 THEN {""}
    ELSE {c \o text : c \in chars, text \in StringsOfLen(chars, n - 1)}

Spaces(n) == IF n = 0 THEN "" ELSE " " \o Spaces(n - 1)

\* The content of a single-quoted name with each ' written twice.
Escaped(content) ==
    IF content = "" THEN ""
    ELSE (IF CharAt(content, 1) = "'" THEN "''" ELSE CharAt(content, 1))
         \o Escaped(SubSeq(content, 2, Len(content)))

Field(quote, content, before, after, word) ==
    [quote |-> quote, content |-> content, before |-> before, after |-> after,
     word |-> word]

\* The bare fields of m characters (name and spaces around it) before `word`.
BareFields(m, word) ==
    UNION {{Field("", content, pad[1], pad[2], word) :
               content \in StringsOfLen(BareChars, m - pad[1] - pad[2])} :
           pad \in {q \in (0..1) \X (0..1) : q[1] + q[2] < m}}

\* The quoted fields whose content has m characters, before `word`.
QuotedFields(m, word) ==
    UNION {{Field(quote, content, 0, 0, word) :
               content \in StringsOfLen(QuotedChars(quote), m)} :
           quote \in {"'", "\""}}

\* The fields written from n characters; withWord says whether a direction
\* word may follow the name.
FieldsWritten(n, withWord) ==
    BareFields(n, "") \cup QuotedFields(n, "")
    \cup (IF withWord /\ n > 1
          THEN UNION {BareFields(n - 1, word) \cup QuotedFields(n - 1, word) :
                      word \in Words}
          ELSE {})

FieldListsWritten(n, withWord) ==
    IF n = 0 THEN {<<>>}
    ELSE UNION {{<<field>> \o rest : field \in FieldsWritten(j, withWord),
                                     rest \in FieldListsWritten(n - j, withWord)} :
                j \in 1..n}

NameText(field) ==
    IF field.quote = "" THEN field.content
    ELSE IF field.quote = "'" THEN "'" \o Escaped(field.content) \o "'"
    ELSE "\"" \o field.content \o "\""

FieldText(field) ==
    Spaces(field.before) \o NameText(field)
    \o (IF field.word = "" THEN "" ELSE " " \o field.word)
    \o Spaces(field.after)

TextOf(fields, separator) ==
    IF fields = <<>> THEN ""
    ELSE IF Len(fields) = 1 THEN FieldText(fields[1])
    ELSE FieldText(fields[1]) \o separator \o TextOf(Tail(fields), separator)

\* The fields a text was written from, kept beside the text.
Written(fields) == [k |-> "written", e |-> fields]

Separator(parser) == IF parser = "splitNamePath" THEN "." ELSE ","

InitParse ==
    \E n \in 0..MaxChars :
       \/ \E fields \in FieldListsWritten(n, FALSE),
             parser \in {"splitNamePath", "splitProperityNameSequence"} :
                Call(parser, Str(TextOf(fields, Separator(parser))),
                     Written(fields), NoFuncs)
       \/ \E fields \in FieldListsWritten(n, TRUE) :
             Call("parseOrderExpression", Str(TextOf(fields, ",")),
                  Written(fields), NoFuncs)

SplitNamePath == op = "splitNamePath" /\ Return(splitNamePath(sourceArg))

SplitProperityNameSequence ==
    op = "splitProperityNameSequence" /\ Return(splitProperityNameSequence(sourceArg))

ParseOrderExpression ==
    op = "parseOrderExpression" /\ Return(parseOrderExpression(sourceArg))

NextParse == SplitNamePath \/ SplitProperityNameSequence \/ ParseOrderExpression

SpecParse == InitParse /\ [][NextParse]_vars

(***************************************************************************)
(* What the parsers make of the fields a text was written from.            *)
(***************************************************************************)
WrittenFields == defaultArg.e

Parsers == {"splitNamePath", "splitProperityNameSequence", "parseOrderExpression"}

\* The name a result element carries.
NameOf(element) ==
    IF element.k = "string" THEN element.v ELSE element.f.fieldName.v

\* A direction word that holds, after its first letter, a letter outside
\* d, e, s, c, or that is followed by a space.
IsMisspelt(field) ==
    /\ field.word # ""
    /\ \/ field.after > 0
       \/ \E i \in 2..Len(field.word) :
             ToLowerCase(CharAt(field.word, i)) \notin {"d", "e", "s", "c"}

WellSpelt == \A i \in 1..Len(WrittenFields) : ~IsMisspelt(WrittenFields[i])

\* C14: at a syntax error in a direction word, parseOrderExpression returns the
\* order fields completed before the error point, in input order.
C14_SyntaxErrorKeepsCompletedFields ==
    (Done("parseOrderExpression") /\ ~WellSpelt) =>
       LET first == CHOOSE i \in 1..Len(WrittenFields) :
                       /\ IsMisspelt(WrittenFields[i])
                       /\ \A j \in 1..(i - 1) : ~IsMisspelt(WrittenFields[j])
           completed == SubSeq(WrittenFields, 1, first - 1)
       IN SameData(result, parseOrderExpression(Str(TextOf(completed, ","))))

\* One order field per written field, descending exactly after the word desc
\* in any letter case.
DirectionsAsWritten ==
    /\ result.k = "array"
    /\ Len(result.e) = Len(WrittenFields)
    /\ \A i \in 1..Len(WrittenFields) :
          result.e[i].f.isAscendingOrder
             = Bool(LowerCased(WrittenFields[i].word) # "desc")

C19_BareTrimmedQuotedKept ==
    (pc = "done" /\ op \in Parsers /\ WellSpelt) =>
       /\ Len(result.e) = Len(WrittenFields)
       /\ \A i \in 1..Len(WrittenFields) :
             (\/ WrittenFields[i].quote = ""
              \/ " " \in {CharAt(WrittenFields[i].content, 1),
                          CharAt(WrittenFields[i].content,
                                 Len(WrittenFields[i].content))})
                => NameOf(result.e[i]) = WrittenFields[i].content

\* A quoted field whose content neither begins nor ends with a space.
IsQuotedNoEdgeSpace(field) ==
    /\ field.quote # ""
    /\ CharAt(field.content, 1) # " "
    /\ CharAt(field.content, Len(field.content)) # " "

RECURSIVE GetByNames(_, _)

\* The while loop of getPropertyValueByNamePath: Object.keys(value) raises a
\* TypeError for null, and is empty for a number, a boolean and a Date.
GetByNames(value, names) ==
    IF value = Undefined \/ names = <<>> THEN value
    ELSE IF value = NullV THEN TypeError
    ELSE LET name == Head(names).v
         IN GetByNames(IF name \in OwnKeys(value) THEN GetProp(value, name)
                       ELSE Undefined,
                       Tail(names))

getPropertyValueByNamePath(sourceObject, namePath) ==
    GetByNames(sourceObject, splitNamePath(namePath).e)

\* ToNumber(ToPrimitive(v)) is a number for these kinds; for a plain object it
\* is NaN.
IsNumeric(v) == v.k \in {"number", "boolean", "date"}

ToNumber(v) ==
    IF v.k = "number" THEN v.v
    ELSE IF v.k = "boolean" THEN (IF v.v THEN 1 ELSE 0)
    ELSE v.t

\* leftValue < rightValue: false when either side is a plain object (two
\* objects give two equal strings, an object beside a number gives NaN).
LessThan(leftValue, rightValue) ==
    IsNumeric(leftValue) /\ IsNumeric(rightValue)
    /\ ToNumber(leftValue) < ToNumber(rightValue)

\* The cascade with the null tests ahead of the undefined tests.
CompareValues_NullFirst(leftValue, rightValue) ==
    IF leftValue = NullV /\ rightValue = NullV THEN Num(0)
    ELSE IF leftValue = NullV THEN Num(-1)
    ELSE IF rightValue = NullV THEN Num(1)
    ELSE IF leftValue = Undefined /\ rightValue = Undefined THEN Num(0)
    ELSE IF leftValue = Undefined THEN Num(-1)
    ELSE IF rightValue = Undefined THEN Num(1)
    ELSE IF LessThan(leftValue, rightValue) THEN Num(-1)
    ELSE IF LessThan(rightValue, leftValue) THEN Num(1)
    ELSE Num(0)

\* The cascade of compareField on the two values it resolved.
CompareValues(leftValue, rightValue) ==
    IF leftValue = Undefined /\ rightValue = Undefined THEN Num(0)
    ELSE IF leftValue = Undefined THEN Num(-1)
    ELSE IF rightValue = Undefined THEN Num(1)
    ELSE IF leftValue = NullV /\ rightValue = NullV THEN Num(0)
    ELSE IF leftValue = NullV THEN Num(-1)
    ELSE IF rightValue = NullV THEN Num(1)
    ELSE IF LessThan(leftValue, rightValue) THEN Num(-1)
    ELSE IF LessThan(rightValue, leftValue) THEN Num(1)
    ELSE Num(0)

compareField(leftItemObject, rightItemObject, namePath) ==
    LET leftValue == getPropertyValueByNamePath(leftItemObject, namePath)
        rightValue == getPropertyValueByNamePath(rightItemObject, namePath)
    IN IF leftValue = TypeError \/ rightValue = TypeError THEN TypeError
       ELSE CompareValues(leftValue, rightValue)

RECURSIVE CompareObjectLoop(_, _, _)

\* The for loop of compareObject over the order fields that remain.
CompareObjectLoop(leftItemObject, rightItemObject, orderFields) ==
    IF orderFields = <<>> THEN Num(0)
    ELSE LET fieldName == GetProp(Head(orderFields), "fieldName")
             isAscendingOrder == GetProp(Head(orderFields), "isAscendingOrder")
             fieldResult == compareField(leftItemObject, rightItemObject, fieldName)
         IN IF fieldResult = TypeError THEN TypeError
            ELSE IF fieldResult = Num(0)
            THEN CompareObjectLoop(leftItemObject, rightItemObject, Tail(orderFields))
            ELSE IF isAscendingOrder.v THEN fieldResult
            ELSE Num(-fieldResult.v)

compareObject(leftItemObject, rightItemObject, orderFields) ==
    CompareObjectLoop(leftItemObject, rightItemObject, orderFields.e)

RECURSIVE InsertItem(_, _, _)

\* One item put into a sorted run, after every item it does not precede: the
\* run with the item, or TypeError when a comparison raised.
InsertItem(sorted, item, orderFields) ==
    IF sorted = <<>> THEN Arr(<<item>>, "source")
    ELSE LET last == sorted[Len(sorted)]
             order == compareObject(last, item, orderFields)
         IN IF order = TypeError THEN TypeError
            ELSE IF order.v > 0
            THEN LET front == InsertItem(SubSeq(sorted, 1, Len(sorted) - 1), item,
                                         orderFields)
                 IN IF front = TypeError THEN TypeError
                    ELSE Arr(Append(front.e, last), "source")
            ELSE Arr(Append(sorted, item), "source")

RECURSIVE SortLoop(_, _, _)

\* itemObjects.sort(comparator): the items in the stable order of the
\* comparator, or TypeError when a call of the comparator raised.
SortLoop(sorted, items, orderFields) ==
    IF items = <<>> THEN Arr(sorted, "source")
    ELSE LET next == InsertItem(sorted, Head(items), orderFields)
         IN IF next = TypeError THEN TypeError
            ELSE SortLoop(next.e, Tail(items), orderFields)

\* ObjectSorter.sort: the array after the call, or TypeError.
sort(itemObjects, orderFields) == SortLoop(<<>>, itemObjects.e, orderFields)

MaxAccessNodes == 3

MaxPathLen == 2

\* The items and the order fields of one call of sort, together.
MaxSortSize == 4

RECURSIVE PathsOfLen(_)

\* The name paths of n names.
PathsOfLen(n) ==
    IF n = 1 THEN Keys ELSE {path \o "." \o key : path \in PathsOfLen(n - 1), key \in Keys}

NamePaths == UNION {PathsOfLen(n) : n \in 1..MaxPathLen}

ComparedLeaves ==
    {Undefined, NullV, Num(1), Num(2), Bool(FALSE), Bool(TRUE),
     DateV(1, "source"), DateV(2, "source")}

\* The item objects given to compareField: a value under a, directly or one
\* object deeper.
ComparedItems ==
    {Obj(NoFields, "source")}
    \cup {Obj("a" :> leaf, "source") : leaf \in ComparedLeaves}
    \cup {Obj("a" :> Obj("a" :> leaf, "source"), "source") : leaf \in ComparedLeaves}

\* The item objects given to sort.
SortedItems ==
    {Obj(("a" :> x) @@ ("b" :> y), "source") :
        x \in {Undefined, NullV, Num(1), Num(2)}, y \in {Num(1), Num(2)}}

SortPaths == {"a", "b", "a.a"}

OrderFields == {OrderField(path, ascending) : path \in SortPaths, ascending \in BOOLEAN}

InitSorter ==
    \/ \E sourceObject \in ValuesUpTo(MaxAccessNodes, "source"), path \in NamePaths :
          Call("getPropertyValueByNamePath", sourceObject, Str(path), NoFuncs)
    \/ \E left \in ComparedItems, right \in ComparedItems, path \in NamePaths :
          Call("compareField", left, right, Str(path))
    \/ \E m \in 1..MaxSortSize :
          \E n \in 0..(MaxSortSize - m) :
             \E items \in SeqsOfLen(SortedItems, n), fields \in SeqsOfLen(OrderFields, m) :
                Call("sort", Arr(items, "source"), Arr(fields, "default"), NoFuncs)

GetPropertyValueByNamePath ==
    /\ op = "getPropertyValueByNamePath"
    /\ Return(getPropertyValueByNamePath(sourceArg, defaultArg))

CompareField ==
    /\ op = "compareField"
    /\ Return(compareField(sourceArg, defaultArg, funcsArg))

\* sort returns nothing: the items array holds the order.
Sort ==
    /\ op = "sort"
    /\ pc = "call"
    /\ pc' = "done"
    /\ LET sorted == sort(sourceNow, defaultNow)
       IN IF sorted = TypeError
          THEN result' = TypeError /\ sourceNow' = sourceNow
          ELSE result' = Undefined /\ sourceNow' = sorted
    /\ UNCHANGED <<op, sourceArg, defaultArg, funcsArg, defaultNow>>

NextSorter == GetPropertyValueByNamePath \/ CompareField \/ Sort

SpecSorter == InitSorter /\ [][NextSorter]_vars

(***************************************************************************)
(* Claims about ObjectAccessor and ObjectSorter.                           *)
(***************************************************************************)
RECURSIVE ValueReached(_, _)

\* The value at the end of the names, undefined as soon as a name is not an
\* own key of the value reached so far.
ValueReached(value, names) ==
    IF names = <<>> THEN value
    ELSE IF value.k \in {"object", "array"} /\ Head(names).v \in OwnKeys(value)
    THEN ValueReached(GetProp(value, Head(names).v), Tail(names))
    ELSE Undefined

Resolved(itemObject, namePath) == ValueReached(itemObject, splitNamePath(namePath).e)

\* C15: getPropertyValueByNamePath returns, without raising, undefined when
\* some segment is not an own key of the value reached so far (a null or a
\* primitive on the way included), and the value reached otherwise.
C15_MissingSegmentGivesUndefined ==
    (pc = "done" /\ op = "getPropertyValueByNamePath") =>
       result = Resolved(sourceArg, defaultArg)

\* The result the claim gives compareField for two resolved values.
ClaimedFieldOrder(leftValue, rightValue) ==
    IF leftValue = Undefined \/ rightValue = Undefined
    THEN (IF leftValue = rightValue THEN 0 ELSE IF leftValue = Undefined THEN -1 ELSE 1)
    ELSE IF leftValue = NullV \/ rightValue = NullV
    THEN (IF leftValue = rightValue THEN 0 ELSE IF leftValue = NullV THEN -1 ELSE 1)
    ELSE IF LessThan(leftValue, rightValue) THEN -1
    ELSE IF LessThan(rightValue, leftValue) THEN 1
    ELSE 0

ClaimedCompareField(left, right, namePath) ==
    ClaimedFieldOrder(Resolved(left, namePath), Resolved(right, namePath))

\* C17: compareField returns 0 when both resolved values are undefined or both
\* null, -1 / 1 when only the left / only the right is undefined, then -1 / 1
\* when only the left / only the right is null, and otherwise -1, 1 or 0 as
\* left < right, left > right or neither.
C17_CompareFieldCascade ==
    (pc = "done" /\ op = "compareField") =>
       result = Num(ClaimedCompareField(sourceArg, defaultArg, funcsArg))

RECURSIVE ClaimedCompareObject(_, _, _)

\* The first nonzero field order, negated for a descending field; 0 when all
\* fields tie.
ClaimedCompareObject(left, right, orderFields) ==
    IF orderFields = <<>> THEN 0
    ELSE LET order == ClaimedCompareField(left, right, Head(orderFields).f.fieldName)
         IN IF order = 0 THEN ClaimedCompareObject(left, right, Tail(orderFields))
            ELSE IF Head(orderFields).f.isAscendingOrder.v THEN order
            ELSE -order

Occurrences(items, item) == Cardinality({i \in 1..Len(items) : items[i] = item})

IsPermutation(items, others) ==
    /\ Len(items) = Len(others)
    /\ \A i \in 1..Len(items) : Occurrences(items, items[i]) = Occurrences(others, items[i])

\* The items of `items` that tie with `item`, in their order.
TiesOf(items, item, orderFields) ==
    LET Ties(other) == ClaimedCompareObject(item, other, orderFields) = 0
    IN SelectSeq(items, Ties)

\* C16: sort leaves the items as a permutation of the input in which every
\* adjacent pair compares <= 0 under the order fields, and items that compare 0
\* keep their input order.
C16_SortOrdersAdjacentPairs ==
    (pc = "done" /\ op = "sort") =>
       /\ result # TypeError
       /\ IsPermutation(sourceNow.e, sourceArg.e)
       /\ \A i \in 1..(Len(sourceNow.e) - 1) :
             ClaimedCompareObject(sourceNow.e[i], sourceNow.e[i + 1], defaultArg.e) <= 0
       /\ \A i \in 1..Len(sourceArg.e) :
             TiesOf(sourceNow.e, sourceArg.e[i], defaultArg.e)
                = TiesOf(sourceArg.e, sourceArg.e[i], defaultArg.e)

(***************************************************************************)
(* NumberRange: the iterator whose position is the field `current` of the  *)
(* range object itself, and the indexed view built by                      *)
(* buildIndexedNumberRange.                                                *)
(***************************************************************************)
\* new NumberRange(from, to, step)
NumberRange(from, to, step) ==
    Obj([from |-> Num(from), to |-> Num(to), step |-> Num(step)], "new")

\* range[Symbol.iterator](): the range object after the call (the call returns
\* the range object itself).
SymbolIterator(range) ==
    Obj(SetField(range.f, "current", range.f.from), range.own)

\* The range object after next().
AfterNext(range) ==
    IF range.f.current.v < range.f.to.v
    THEN Obj(SetField(range.f, "current", Num(range.f.current.v + range.f.step.v)),
             range.own)
    ELSE range

\* The value next() returns: { done: false, value } or { done: true }.
next(range) ==
    IF range.f.current.v < range.f.to.v
    THEN Obj([done |-> Bool(FALSE), value |-> range.f.current], "new")
    ELSE Obj([done |-> Bool(TRUE)], "new")

\* Math.trunc(n / d) for d > 0.
Trunc(n, d) == IF n >= 0 THEN n \div d ELSE -((-n) \div d)

\* The length computed by buildIndexedNumberRange.
IndexedLength(from, to, step) == Trunc(to - from - 1, step) + 1

\* The get trap of the proxy for the property 'length' or an integer index.
ProxyGet(from, to, step, prop) ==
    IF prop = Str("length") THEN Num(IndexedLength(from, to, step))
    ELSE LET idx == prop.v
         IN IF idx >= 0 /\ idx < IndexedLength(from, to, step)
            THEN Num(from + (step * idx))
            ELSE Undefined

MaxRange == 3

MaxStep == 2

Loops == {1, 2}

\* Either one read of the indexed view of a range, or two loops over one range
\* object: pc and result then hold one position and one list of values per loop.
InitRange ==
    \E from \in 0..MaxRange, to \in 0..MaxRange, step \in 1..MaxStep :
       \/ \E prop \in {Str("length")} \cup {Num(idx) : idx \in -1..(MaxRange + 1)} :
             Call("buildIndexedNumberRange", NumberRange(from, to, step), prop, NoFuncs)
       \/ /\ op = "iterate"
          /\ pc = [loop \in Loops |-> "start"]
          /\ sourceArg = NumberRange(from, to, step)
          /\ sourceNow = sourceArg
          /\ defaultArg = Undefined
          /\ defaultNow = Undefined
          /\ funcsArg = NoFuncs
          /\ result = [loop \in Loops |-> <<>>]

BuildIndexedNumberRange ==
    /\ op = "buildIndexedNumberRange"
    /\ Return(ProxyGet(sourceArg.f.from.v, sourceArg.f.to.v, sourceArg.f.step.v,
                       defaultArg))

\* A loop starts: for (... of range) calls range[Symbol.iterator]().
StartLoop(loop) ==
    /\ op = "iterate"
    /\ pc[loop] = "start"
    /\ pc' = [pc EXCEPT ![loop] = "next"]
    /\ sourceNow' = SymbolIterator(sourceNow)
    /\ UNCHANGED <<op, sourceArg, defaultArg, funcsArg, defaultNow, result>>

\* A loop asks for its next value and takes it, or ends.
StepLoop(loop) ==
    /\ op = "iterate"
    /\ pc[loop] = "next"
    /\ LET returned == next(sourceNow)
       IN IF returned.f.done.v
          THEN /\ pc' = [pc EXCEPT ![loop] = "done"]
               /\ result' = result
          ELSE /\ pc' = pc
               /\ result' = [result EXCEPT ![loop] = Append(@, returned.f.value.v)]
    /\ sourceNow' = AfterNext(sourceNow)
    /\ UNCHANGED <<op, sourceArg, defaultArg, funcsArg, defaultNow>>

NextRange ==
    \/ BuildIndexedNumberRange
    \/ \E loop \in Loops : StartLoop(loop) \/ StepLoop(loop)

SpecRange == InitRange /\ [][NextRange]_vars

(***************************************************************************)
(* Claims about NumberRange.                                               *)
(***************************************************************************)
RECURSIVE ValuesFrom(_, _, _)

\* from, from + step, ... while the value is below to.
ValuesFrom(from, to, step) ==
    IF from < to THEN <<from>> \o ValuesFrom(from + step, to, step) ELSE <<>>

Yielded(range) == ValuesFrom(range.f.from.v, range.f.to.v, range.f.step.v)

\* C21: the indexed view has as length the number of values the iteration of
\* the range yields, gives the i-th of them at index i below the length, and
\* undefined at every other index.
C21_IndexedViewMatchesIteration ==
    (op = "buildIndexedNumberRange" /\ pc = "done") =>
       IF defaultArg = Str("length") THEN result = Num(Len(Yielded(sourceArg)))
       ELSE IF defaultArg.v >= 0 /\ defaultArg.v < Len(Yielded(sourceArg))
       THEN result = Num(Yielded(sourceArg)[defaultArg.v + 1])
       ELSE result = Undefined

\* C30: each of two interleaved loops over one range object yields the whole
\* sequence of the range.
C30_InterleavedLoopsYieldAll ==
    op = "iterate" =>
       \A loop \in Loops : pc[loop] = "done" => result[loop] = Yielded(sourceArg)

(***************************************************************************)
(* Further claims about ObjectUtils.                                       *)
(***************************************************************************)
\* The value of a key is undefined in the source and the fallback fills nothing.
UndefinedInBoth(key) ==
    /\ key \in OwnKeys(sourceArg)
    /\ GetProp(sourceArg, key) = Undefined
    /\ GetProp(defaultArg, key) = Undefined

\* The value taken for a key is a function.
FunctionTaken(key) ==
    \/ GetProp(sourceArg, key) = Func
    \/ GetProp(sourceArg, key) = Undefined /\ GetProp(defaultArg, key) = Func

\* C22: the keys of objectMerge(s, f) are exactly those of s and of f; a key
\* whose value is undefined in s and absent or undefined in f, or whose value
\* is a function, is in the result with the value undefined.
C22_MergeKeepsEveryKey ==
    (Done("objectMerge") /\ funcsArg = NoFuncs) =>
       /\ OwnKeys(result) = OwnKeys(sourceArg) \cup OwnKeys(defaultArg)
       /\ \A key \in OwnKeys(sourceArg) \cup OwnKeys(defaultArg) :
             (UndefinedInBoth(key) \/ FunctionTaken(key)) =>
                (key \in OwnKeys(result) /\ GetProp(result, key) = Undefined)

\* A merge with a key undefined on both sides, a function-valued key, and a key
\* of the fallback alone.
C22_Witness ==
    /\ Done("objectMerge")
    /\ funcsArg = NoFuncs
    /\ UndefinedInBoth("a")
    /\ "b" \notin OwnKeys(sourceArg)
    /\ GetProp(defaultArg, "b") = Func
    /\ OwnKeys(result) = {"a", "b"}

AllElementFieldPaths == UNION {ElementFieldPaths(depth) : depth \in 1..MaxArrayDepth}

SegmentsOf(path) == CHOOSE segments \in AllElementFieldPaths : JoinSegments(segments) = path

RECURSIVE Overridden(_, _, _)

\* The value with the function applied at the fields the segments name: '[]'
\* names every element of an array, any other segment a key of a map.
Overridden(v, segments, name) ==
    IF segments = <<>> THEN ApplyFunc(name, v)
    ELSE IF Head(segments) = "[]"
    THEN (IF v.k = "array"
          THEN Arr([i \in 1..Len(v.e) |-> Overridden(v.e[i], Tail(segments), name)], "new")
          ELSE v)
    ELSE IF v.k = "object" /\ Head(segments) \in DOMAIN v.f
    THEN Obj([key \in DOMAIN v.f |->
                IF key = Head(segments) THEN Overridden(v.f[key], Tail(segments), name)
                ELSE v.f[key]],
             "new")
    ELSE v

\* C23: the name path an override is looked up under gains one '[]' segment per
\* array level ('[].a', 'a.[].a', 'a.[].[].a'), and an override registered
\* under that path is applied to that field of every such element.
C23_ArrayLevelsAddBrackets ==
    (pc = "done" /\ op \in {"arrayClone", "objectClone"} /\ funcsArg # NoFuncs) =>
       \A path \in DOMAIN funcsArg.m :
          SameData(result, Overridden(sourceArg, SegmentsOf(path), funcsArg.m[path]))

(***************************************************************************)
(* Further claims about ObjectSorter.                                      *)
(***************************************************************************)
\* The values compareField resolved for the two items.
LeftValue == getPropertyValueByNamePath(sourceArg, funcsArg)

RightValue == getPropertyValueByNamePath(defaultArg, funcsArg)

\* C24 (as claimed): compareField returns 0 for a pair of items of which one
\* resolves to undefined and the other to null, in either order.
C24_UndefinedTiesWithNull ==
    (pc = "done" /\ op = "compareField"
        /\ {LeftValue, RightValue} = {Undefined, NullV}) => result = Num(0)

\* Sorted by the field a ascending, no item whose a is null comes before an
\* item whose a is undefined.
UndefinedBeforeNull ==
    \A i, j \in 1..Len(sourceNow.e) :
       (GetProp(sourceNow.e[i], "a") = NullV /\ GetProp(sourceNow.e[j], "a") = Undefined)
          => j < i

\* C24 (amended): compareField returns -1 when the left item resolves to
\* undefined and the right to null, and 1 when the left resolves to null and the
\* right to undefined, so that a sort ascending by the field puts the
\* undefined-valued items before the null-valued ones.
C24_UndefinedSortsBeforeNull ==
    /\ (pc = "done" /\ op = "compareField") =>
          /\ (LeftValue = Undefined /\ RightValue = NullV) => result = Num(-1)
          /\ (LeftValue = NullV /\ RightValue = Undefined) => result = Num(1)
    /\ (pc = "done" /\ op = "sort" /\ defaultArg.e[1] = OrderField("a", TRUE)
           /\ result # TypeError)
          => UndefinedBeforeNull

\* An item whose value is null compared with one whose value is undefined, and a
\* sort that moved an undefined-valued item ahead of a null-valued one.
C24_Witness ==
    \/ /\ pc = "done"
       /\ op = "compareField"
       /\ LeftValue = NullV
       /\ RightValue = Undefined
       /\ result = Num(1)
    \/ /\ pc = "done"
       /\ op = "sort"
       /\ defaultArg.e[1] = OrderField("a", TRUE)
       /\ Len(sourceArg.e) = 2
       /\ GetProp(sourceArg.e[1], "a") = NullV
       /\ GetProp(sourceArg.e[2], "a") = Undefined
       /\ sourceNow.e = <<sourceArg.e[2], sourceArg.e[1]>>

(***************************************************************************)
(* The parsers on texts of any characters, and splitNamePath on name paths *)
(* written from segments in single quotes.                                 *)
(***************************************************************************)
MaxTextChars == 4

MaxPathSize == 4

TextChars == {"a", ".", ",", " ", "'"}

SegmentChars == {"a", ".", ",", " ", "'", "\""}

RECURSIVE SegmentListsOfSize(_)

\* The lists of segments whose lengths, each counted one more, add up to n.
SegmentListsOfSize(n) ==
    IF n = 0 THEN {<<>>}
    ELSE UNION {{<<segment>> \o rest : segment \in StringsOfLen(SegmentChars, j - 1),
                                       rest \in SegmentListsOfSize(n - j)} :
                j \in 1..n}

RECURSIVE QuotedPath(_)

\* Each segment in single quotes with every ' doubled, joined with '.'.
QuotedPath(segments) ==
    "'" \o Escaped(segments[1]) \o "'"
    \o (IF Len(segments) = 1 THEN "" ELSE "." \o QuotedPath(Tail(segments)))

InitText ==
    \/ \E n \in 0..MaxTextChars :
          \E text \in StringsOfLen(TextChars, n), parser \in Parsers :
             Call(parser, Str(text), Undefined, NoFuncs)
    \/ \E n \in 1..MaxPathSize :
          \E segments \in SegmentListsOfSize(n) :
             Call("splitNamePath", Str(QuotedPath(segments)), Written(segments), NoFuncs)

SpecText == InitText /\ [][NextParse]_vars

(***************************************************************************)
(* Further claims about the parsers.                                       *)
(***************************************************************************)
\* A name path written from segments in single quotes.
IsQuotedPath == op = "splitNamePath" /\ defaultArg # Undefined

\* C25: a non-empty list of segments of any characters (the empty string
\* included), each written in single quotes with every ' doubled and joined
\* with '.', is parsed by splitNamePath back to exactly that list.
C25_QuotedPathRoundTrip ==
    (pc = "done" /\ IsQuotedPath) =>
       result.e = [i \in 1..Len(defaultArg.e) |-> Str(defaultArg.e[i])]

\* An empty segment and a segment holding a ' and a '.', parsed back.
C25_Witness ==
    /\ pc = "done"
    /\ IsQuotedPath
    /\ defaultArg.e = <<"", "'.">>
    /\ result.e = <<Str(""), Str("'.")>>

Contains(text, char) == \E i \in 1..Len(text) : CharAt(text, i) = char

\* C27: for a text without quote characters, no segment splitNamePath returns
\* holds a '.', and no segment splitProperityNameSequence returns and no field
\* name parseOrderExpression returns holds a ','.
C27_BareNameEndsAtSeparator ==
    (pc = "done" /\ op \in Parsers /\ ~IsQuotedPath
        /\ ~Contains(sourceArg.v, "'") /\ ~Contains(sourceArg.v, "\"")) =>
       \A i \in 1..Len(result.e) : ~Contains(NameOf(result.e[i]), Separator(op))

\* No field of the text was written with a direction word.
NoDirectionWord == \A i \in 1..Len(WrittenFields) : WrittenFields[i].word = ""

NamesOf(array) == [i \in 1..Len(array.e) |-> NameOf(array.e[i])]

\* C26: for a text in which no segment is followed by a direction word, the
\* field names of parseOrderExpression(text), in order, are
\* splitProperityNameSequence(text).
C26_OrderParserNamesAsComposer ==
    (pc = "done" /\ op = "parseOrderExpression" /\ NoDirectionWord) =>
       NamesOf(result) = NamesOf(splitProperityNameSequence(sourceArg))

(***************************************************************************)
(* Algebraic claims about ObjectUtils.                                     *)
(***************************************************************************)
\* C28: equals(a, b) = equals(b, a) for all values of the handled kinds, and
\* likewise objectEquals on two maps and arrayEquals on two arrays.
C28_EqualsIsSymmetric ==
    Done("equals") =>
       /\ result = Bool(equals(defaultArg, sourceArg))
       /\ (IsPlainMap(sourceArg) /\ IsPlainMap(defaultArg))
             => objectEquals(sourceArg, defaultArg) = objectEquals(defaultArg, sourceArg)
       /\ (IsArray(sourceArg) /\ IsArray(defaultArg))
             => arrayEquals(sourceArg, defaultArg) = arrayEquals(defaultArg, sourceArg)

\* C29: without overrides, merging the result of objectMerge(s, f) with the same
\* fallback again gives a map deep-equal to the result, with the same keys.
C29_MergeIsIdempotent ==
    (Done("objectMerge") /\ funcsArg = NoFuncs) =>
       LET again == objectMerge(result, defaultArg, NoFuncs)
       IN /\ OwnKeys(again) = OwnKeys(result)
          /\ SameData(again, result)
          /\ equals(again, result)

====
